---- MODULE Spec2Model ----
(***************************************************************************)
(* A model of bot.py: the polling loop run_bot, the extraction of "under"  *)
(* picks from the fetched payload, and the last_sent store.                *)
(*                                                                         *)
(* Text is a sequence of tokens (strings).  A token is a single character  *)
(* where the code looks at characters (digits, ".", ",", " ") and a whole  *)
(* word or phrase elsewhere.  A float is an integer number of hundredths;  *)
(* NaN is the one float that differs from itself.                          *)
(***************************************************************************)
EXTENDS Integers, Sequences, FiniteSets, TLC

\* ---------------------------------------------------------------- bounds
\* Longest list of events in a fetched payload.
MaxEvents == 2
\* The number of rounds, from the first, that SpecHist looks back on.
FollowRounds == 2
\* Longest list of picks given to build_group_new_messages on its own.
MaxGroup == 3
\* Largest max_retries given to fetch_json on its own (3 is its default).
MaxRetries == 3

\* F(v), with v evaluated once.
With(v, F(_)) == CHOOSE r \in {F(x) : x \in {v}} : TRUE

\* ------------------------------------------------------- floats and text
\* float("nan"): the value for which x != x holds.
NaN == -1
\* Python's None where a float was expected (to_float, found_odd).
None == -2

\* x != y on floats (line 217): NaN differs from everything, itself included.
FloatNe(x, y) == x = NaN \/ y = NaN \/ x # y
\* x == y on floats (line 180).
FloatEq(x, y) == ~FloatNe(x, y)

Digits == <<"0", "1", "2", "3", "4", "5", "6", "7", "8", "9">>
IsDigit(c) == \E i \in 1..10 : Digits[i] = c
DigitVal(c) == (CHOOSE i \in 1..10 : Digits[i] = c) - 1
IsWS(c) == c = " "

\* str.lower() on the tokens that carry letters whose case the code folds.
Lower(c) ==
    CASE c = "Total de Gols" -> "total de gols"
      [] c = "Menos de" -> "menos de"
      [] c = "Para ter menos de" -> "para ter menos de"
      [] c = "Gols na partida" -> "gols na partida"
      [] c = "NaN" -> "nan"
      [] OTHER -> c

\* str.strip(): drop the leading and trailing whitespace tokens.
StripOf(s) ==
    With({i \in 1..Len(s) : ~IsWS(s[i])}, LAMBDA idx :
        IF idx = {} THEN <<>>
        ELSE SubSeq(s, CHOOSE i \in idx : \A j \in idx : i <= j,
                       CHOOSE i \in idx : \A j \in idx : j <= i))
Strip(s) == With(s, LAMBDA v : StripOf(v))

\* str.replace(",", ".")
ReplaceComma(s) == [i \in 1..Len(s) |-> IF s[i] = "," THEN "." ELSE s[i]]

\* The value of a run of digit tokens, most significant first.
RECURSIVE IntOfFirst(_, _)
IntOfFirst(ds, n) ==
    IF n = 0 THEN 0 ELSE 10 * IntOfFirst(ds, n - 1) + DigitVal(ds[n])
IntOf(ds) == With(ds, LAMBDA v : IntOfFirst(v, Len(v)))

AllDigits(s) == With(s, LAMBDA v : \A i \in 1..Len(v) : IsDigit(v[i]))

\* The fraction digits as hundredths: "5" is 50, "50" is 50, "05" is 5.
\* The texts of the model carry at most two fraction digits.
FracOf(ds) ==
    With(ds, LAMBDA v :
        IF Len(v) = 0 THEN 0
        ELSE IF Len(v) = 1 THEN 10 * DigitVal(v[1])
        ELSE 10 * DigitVal(v[1]) + DigitVal(v[2]))

\* float(s) for a str: surrounding whitespace ignored, "nan" accepted,
\* digits with at most one "." and a digit on one side of it; anything
\* else is the ValueError, given here as None.
FloatOfStripped(t) ==
    With({i \in 1..Len(t) : t[i] = "."}, LAMBDA dots :
        IF Len(t) = 1 /\ Lower(t[1]) = "nan" THEN NaN
        ELSE IF t = <<>> THEN None
        ELSE IF dots = {} THEN (IF AllDigits(t) THEN 100 * IntOf(t) ELSE None)
        ELSE IF Cardinality(dots) > 1 THEN None
        ELSE With(CHOOSE i \in dots : TRUE, LAMBDA d :
                 IF /\ AllDigits(SubSeq(t, 1, d - 1))
                    /\ AllDigits(SubSeq(t, d + 1, Len(t)))
                    /\ Len(t) > 1
                 THEN 100 * IntOf(SubSeq(t, 1, d - 1))
                      + FracOf(SubSeq(t, d + 1, Len(t)))
                 ELSE None))
FloatOfText(s) == With(Strip(s), LAMBDA t : FloatOfStripped(t))

\* to_float (lines 43-49)
to_float(s) ==
    With(s, LAMBDA v : IF v = <<>> THEN None ELSE FloatOfText(ReplaceComma(v)))

\* str(n) for a non-negative int: its decimal digits.
RECURSIVE IntStr(_)
IntStr(n) ==
    IF n < 10 THEN <<Digits[n + 1]>>
    ELSE IntStr(n \div 10) \o <<Digits[(n % 10) + 1]>>

\* str(x) for a float (the f-string of line 71): "1.5", "2.0", "1.55", "nan".
FloatStr(x) ==
    IF x = NaN THEN <<"nan">>
    ELSE LET ip == x \div 100
             fp == x % 100
         IN  IntStr(ip) \o <<".">> \o
             (IF fp % 10 = 0 THEN <<Digits[(fp \div 10) + 1]>>
              ELSE <<Digits[(fp \div 10) + 1], Digits[(fp % 10) + 1]>>)

\* ----------------------------------------------------- the two patterns
\* The index of the first token at or after j that is not whitespace (\s*).
SkipWS(t, j) ==
    With({i \in j..Len(t) : ~IsWS(t[i])}, LAMBDA rest :
        IF rest = {} THEN Len(t) + 1
        ELSE CHOOSE i \in rest : \A k \in rest : i <= k)

\* The last index of the run of digits that starts at j; j - 1 when t[j]
\* is no digit (\d+ then fails).
DigitsEnd(t, j) ==
    With({i \in j..Len(t) : ~IsDigit(t[i])}, LAMBDA stop :
        IF stop = {} THEN Len(t)
        ELSE (CHOOSE i \in stop : \A k \in stop : i <= k) - 1)

\* The last index of \d+(?:[.,]\d+)? matched greedily at j; 0 for no match.
LineEndAt(t, j) ==
    With(DigitsEnd(t, j), LAMBDA d1 :
        IF j > Len(t) \/ d1 < j THEN 0
        ELSE IF d1 + 2 <= Len(t) /\ t[d1 + 1] \in {".", ","}
                /\ DigitsEnd(t, d1 + 2) >= d1 + 2
             THEN DigitsEnd(t, d1 + 2)
             ELSE d1)
LineEnd(t, j) == With(j, LAMBDA v : LineEndAt(t, v))

\* Whether "para ter menos de" at p is followed by \s* <line> \s* gols? na
\* partida.  Nothing anchors the pattern after "partida".
TailOK(t, p) ==
    With(LineEnd(t, SkipWS(t, p + 1)), LAMBDA le :
        /\ le > 0
        /\ With(SkipWS(t, le + 1), LAMBDA g :
               /\ g <= Len(t)
               /\ Lower(t[g]) \in {"gols na partida", "gol na partida"}))

\* RE_HOME_FMT (lines 35-38) matches with "(x)" at x and "para ter menos
\* de" at p: a home of at least one token before x, an away of at least
\* one token between x and p.
HomeFmtAt(t, x, p) ==
    /\ x >= 2 /\ x + 2 <= p /\ p <= Len(t)
    /\ t[x] = "(x)"
    /\ Lower(t[p]) = "para ter menos de"
    /\ TailOK(t, p)

\* parse_under_from_home_text (lines 120-131): <<>> for None, else
\* <<home, away, line>>.  Both names are matched lazily, so the match is
\* the one with the least x and then the least p.
HomeFmtGroups(t) ==
    With({xp \in (1..Len(t)) \X (1..Len(t)) : HomeFmtAt(t, xp[1], xp[2])},
         LAMBDA ms :
        IF t = <<>> \/ ms = {} THEN <<>>
        ELSE With(CHOOSE a \in ms : \A b \in ms :
                      a[1] < b[1] \/ (a[1] = b[1] /\ a[2] <= b[2]),
                  LAMBDA m :
                 With(SkipWS(t, m[2] + 1), LAMBDA j :
                     << Strip(SubSeq(t, 1, m[1] - 1)),
                        Strip(SubSeq(t, m[1] + 1, m[2] - 1)),
                        SubSeq(t, j, LineEnd(t, j)) >>)))
parse_under_from_home_text(home_text) ==
    With(home_text, LAMBDA t : HomeFmtGroups(t))

\* parse_line_from_option_name (lines 133-142) with RE_OPT_UNDER (line 41),
\* anchored at both ends: <<>> for None, else the line text.
OptUnderGroup(t) ==
    With(SkipWS(t, 1), LAMBDA a :
    With(SkipWS(t, a + 1), LAMBDA j :
    With(LineEnd(t, j), LAMBDA le :
        IF /\ t # <<>>
           /\ a <= Len(t) /\ Lower(t[a]) = "menos de"
           /\ le > 0
           /\ SkipWS(t, le + 1) = Len(t) + 1
        THEN SubSeq(t, j, le)
        ELSE <<>>)))
parse_line_from_option_name(opt_name) ==
    With(opt_name, LAMBDA t : OptUnderGroup(t))

\* --------------------------------------------------------- JSON values
\* A scalar of the payload: t is "absent" (no such key), "null", "num" (n,
\* an int for an id and hundredths for an odd) or "str" (s).
Absent == [t |-> "absent", n |-> 0, s |-> <<>>]
Null == [t |-> "null", n |-> 0, s |-> <<>>]
Num(n) == [t |-> "num", n |-> n, s |-> <<>>]
Str(s) == [t |-> "str", n |-> 0, s |-> s]

\* A list-valued key of the payload: "absent", "null", "list" (l) or "bad",
\* a value that is truthy and cannot be iterated (a non-zero number).
NoList == [t |-> "absent", l |-> <<>>]
NullList == [t |-> "null", l |-> <<>>]
List(l) == [t |-> "list", l |-> l]
BadList == [t |-> "bad", l |-> <<>>]

\* Iter, were the keys read without `or []`: a null is then iterated.
IterNoOr(v) ==
    [raised |-> v.t \in {"bad", "null"},
     l |-> IF v.t = "list" THEN v.l ELSE <<>>]

\* `for x in d.get(k, []) or []` (lines 151-154, 168-170, 174): what the
\* loop runs over, or that it raised.  An absent key gives the default, a
\* null or an empty list gives the [] after `or`, a list gives itself; a
\* truthy value that is no list cannot be iterated, or its elements have
\* no .get.
Iter(v) ==
    [raised |-> v.t = "bad",
     l |-> IF v.t = "list" THEN v.l ELSE <<>>]

\* Python truthiness of a scalar, as `or` reads it (lines 155, 156, 171, 175).
Truthy(v) == (v.t = "num" /\ v.n # 0) \/ (v.t = "str" /\ v.s # <<>>)

\* The outcome of a scan that raised (AttributeError, TypeError), which
\* run_bot catches at line 254.
Raise == -3

\* (v or "").strip() of lines 156, 171, 175: <<"!raise">> when v is a
\* non-zero number, which has no strip().
TextOr(v) ==
    With(v, LAMBDA x :
        IF ~Truthy(x) THEN <<>>
        ELSE IF x.t = "str" THEN Strip(x.s)
        ELSE <<"!raise">>)

\* float(odd_val) of lines 181-185: None for the TypeError or ValueError
\* the code passes over.
FloatOfOdd(v) ==
    With(v, LAMBDA x :
        IF x.t = "num" THEN x.n
        ELSE IF x.t = "str" THEN FloatOfText(x.s)
        ELSE None)

\* ScanOptions, were the first option of the right label and line the
\* last one looked at, its odd parsable or not.
RECURSIVE ScanOptionsStopAtFirst(_, _, _)
ScanOptionsStopAtFirst(opts, i, line_f) ==
    IF i > Len(opts) THEN None
    ELSE IF ~opts[i].isdict THEN Raise
    ELSE With(TextOr(opts[i].name), LAMBDA opt_name :
         With(parse_line_from_option_name(opt_name), LAMBDA opt_line_raw :
         With(FloatOfOdd(opts[i].odd), LAMBDA found_odd :
             IF opt_name = <<"!raise">> THEN Raise
             ELSE IF opt_line_raw = <<>>
                  THEN ScanOptionsStopAtFirst(opts, i + 1, line_f)
             ELSE IF FloatEq(to_float(opt_line_raw), line_f)
                  THEN found_odd
                  ELSE ScanOptionsStopAtFirst(opts, i + 1, line_f))))

\* The loop over a market's options (lines 174-187) from option i on:
\* the odd found, None, or Raise.
RECURSIVE ScanOptions(_, _, _)
ScanOptions(opts, i, line_f) ==
    IF i > Len(opts) THEN None
    ELSE IF ~opts[i].isdict THEN Raise
    ELSE With(TextOr(opts[i].name), LAMBDA opt_name :
         With(parse_line_from_option_name(opt_name), LAMBDA opt_line_raw :
         With(FloatOfOdd(opts[i].odd), LAMBDA found_odd :
             IF opt_name = <<"!raise">> THEN Raise
             ELSE IF opt_line_raw = <<>> THEN ScanOptions(opts, i + 1, line_f)
             ELSE IF FloatEq(to_float(opt_line_raw), line_f) /\ found_odd # None
                  THEN found_odd
                  ELSE ScanOptions(opts, i + 1, line_f))))

\* ScanMarkets, were the options of a market of any name looked at.
RECURSIVE ScanMarketsAnyName(_, _, _)
ScanMarketsAnyName(markets, i, line_f) ==
    IF i > Len(markets) THEN None
    ELSE IF ~markets[i].isdict THEN Raise
    ELSE With(TextOr(markets[i].name), LAMBDA mname :
             IF mname = <<"!raise">> THEN Raise
             ELSE IF Iter(markets[i].options).raised THEN Raise
             ELSE With(ScanOptions(Iter(markets[i].options).l, 1, line_f),
                       LAMBDA found_odd :
                      IF found_odd = None
                      THEN ScanMarketsAnyName(markets, i + 1, line_f)
                      ELSE found_odd))

\* The loop over an event's markets (lines 170-189) from market i on.
RECURSIVE ScanMarkets(_, _, _)
ScanMarkets(markets, i, line_f) ==
    IF i > Len(markets) THEN None
    ELSE IF ~markets[i].isdict THEN Raise
    ELSE With(TextOr(markets[i].name), LAMBDA mname :
             IF mname = <<"!raise">> THEN Raise
             ELSE IF Len(mname) # 1 \/ Lower(mname[1]) # "total de gols"
                  THEN ScanMarkets(markets, i + 1, line_f)
             ELSE IF Iter(markets[i].options).raised THEN Raise
             ELSE With(ScanOptions(Iter(markets[i].options).l, 1, line_f),
                       LAMBDA found_odd :
                      IF found_odd = None
                      THEN ScanMarkets(markets, i + 1, line_f)
                      ELSE found_odd))

\* ------------------------------------------------------------ the model
\* UnderPick.__init__ (lines 60-66).
\* x or d, for a text x and for a float x.
TextElse(x, d) == With(x, LAMBDA v : IF v = <<>> THEN d ELSE v)
FloatElse(x, d) == With(x, LAMBDA v : IF v = None \/ v = 0 THEN d ELSE v)

UnderPick(event_id, home, away, line_raw, odd) ==
    [ event_id |-> event_id,
      home     |-> TextElse(Strip(home), <<"Time da Casa">>),
      away     |-> TextElse(Strip(away), <<"Time Visitante">>),
      line_raw |-> line_raw,
      line     |-> FloatElse(to_float(line_raw), 0),
      odd      |-> odd ]

\* UnderPick.key (lines 68-71): the text f"{event_id}|under|{line}".
key(p) == p.event_id \o <<"|under|">> \o FloatStr(p.line)

\* str(event.get("id") or event.get("eventId") or "") of lines 155 and 194.
EventIdText(event) ==
    With(IF Truthy(event.id) THEN event.id
         ELSE IF Truthy(event.eventId) THEN event.eventId
         ELSE Str(<<>>),
         LAMBDA v : IF v.t = "num" THEN IntStr(v.n) ELSE v.s)

\* One pass of the loop body over an event (lines 155-194): r is "pick"
\* (with the pick appended), "skip" (a continue) or "raise".
NoPick == UnderPick(<<>>, <<>>, <<>>, <<>>, 0)
Skip == [r |-> "skip", p |-> NoPick]
Raised == [r |-> "raise", p |-> NoPick]

\* Lines 167-194, for a title that parsed to <<home, away, line_raw>>.
EventWithTitle(event, parsed) ==
    With(to_float(parsed[3]), LAMBDA line_f :
        IF line_f = None THEN Skip
        ELSE IF Iter(event.markets).raised THEN Raised
        ELSE With(ScanMarkets(Iter(event.markets).l, 1, line_f),
                  LAMBDA found_odd :
                 IF found_odd = Raise THEN Raised
                 ELSE IF found_odd = None THEN Skip
                 ELSE [r |-> "pick",
                       p |-> UnderPick(EventIdText(event), parsed[1],
                                       parsed[2], parsed[3], found_odd)]))

EventStepOf(event) ==
    IF ~event.isdict THEN Raised
    ELSE With(TextOr(event.homeTeamName), LAMBDA home_text :
             IF home_text = <<"!raise">> THEN Raised
             ELSE With(parse_under_from_home_text(home_text), LAMBDA parsed :
                      IF parsed = <<>> THEN Skip
                      ELSE EventWithTitle(event, parsed)))
EventStep(e) == With(e, LAMBDA event : EventStepOf(event))

\* The steps of the events of a list of events, in order.
RECURSIVE StepsOfEvents(_, _)
StepsOfEvents(events, i) ==
    IF i > Len(events) THEN <<>>
    ELSE <<EventStep(events[i])>> \o StepsOfEvents(events, i + 1)

\* The steps of the events of the tournaments of a country (lines 153-154).
RECURSIVE StepsOfTourns(_, _)
StepsOfTourns(tourns, i) ==
    IF i > Len(tourns) THEN <<>>
    ELSE (IF ~tourns[i].isdict \/ Iter(tourns[i].events).raised
          THEN <<Raised>>
          ELSE StepsOfEvents(Iter(tourns[i].events).l, 1))
         \o StepsOfTourns(tourns, i + 1)

\* The steps of the events of the countries (line 152).
RECURSIVE StepsOfCountries(_, _)
StepsOfCountries(countries, i) ==
    IF i > Len(countries) THEN <<>>
    ELSE (IF ~countries[i].isdict \/ Iter(countries[i].tournaments).raised
          THEN <<Raised>>
          ELSE StepsOfTourns(Iter(countries[i].tournaments).l, 1))
         \o StepsOfCountries(countries, i + 1)

\* The picks of a sequence of steps, in order.
RECURSIVE PicksOfSteps(_)
PicksOfSteps(steps) ==
    With(steps, LAMBDA v :
        IF v = <<>> THEN <<>>
        ELSE (IF v[1].r = "pick" THEN <<v[1].p>> ELSE <<>>)
             \o PicksOfSteps(Tail(v)))

\* extract_picks (lines 144-195): raised, or the list out.  A payload is
\* [t, data], t "obj" or "null"; its data is [t, countries], t "obj",
\* "null" or "absent".
CountriesOf(payload) ==
    IF payload.t = "obj" /\ payload.data.t = "obj"
    THEN payload.data.countries
    ELSE NoList

extract_picks(payload) ==
    With(CountriesOf(payload), LAMBDA countries :
    With(IF Iter(countries).raised THEN <<Raised>>
         ELSE StepsOfCountries(Iter(countries).l, 1), LAMBDA steps :
        IF \E i \in 1..Len(steps) : steps[i].r = "raise"
        THEN [raised |-> TRUE, out |-> <<>>]
        ELSE [raised |-> FALSE, out |-> PicksOfSteps(steps)]))

\* ------------------------------------------------- the payloads fetched
Opt(line, odd) ==
    [isdict |-> TRUE, name |-> Str(<<"Menos de">> \o line), odd |-> odd]
Market(name, opts) ==
    [isdict |-> TRUE, name |-> Str(<<name>>), options |-> List(opts)]
Event(id, eventId, title, markets) ==
    [isdict |-> TRUE, id |-> id, eventId |-> eventId,
     homeTeamName |-> Str(title), markets |-> markets]
Tourn(events) == [isdict |-> TRUE, events |-> events]
Country(tourns) == [isdict |-> TRUE, tournaments |-> tourns]
\* A list element that is no dict (a string, say): .get raises on it.
NotAnEvent ==
    [isdict |-> FALSE, id |-> Absent, eventId |-> Absent,
     homeTeamName |-> Absent, markets |-> NoList]

\* "<home> (x) <away> para ter menos de <line> gols na partida<tail>"
Title(home, away, line, tail) ==
    home \o <<"(x)">> \o away \o <<" ", "para ter menos de", " ">> \o line
         \o <<" ", "gols na partida">> \o tail

L15 == <<"1", ".", "5">>
L15c == <<"1", ",", "5">>
L25 == <<"2", ".", "5">>
L25c == <<"2", ",", "5">>

\* The events the feed serves.
EventPool ==
    << \* 1: an event with line 1.5 at odd 1.85
       Event(Str(<<"e1">>), Absent, Title(<<"A", " ">>, <<" ", "B">>, L15, <<>>),
             List(<<Market("Total de Gols", <<Opt(L15, Num(185))>>)>>)),
       \* 2: the same event at odd 1.95
       Event(Str(<<"e1">>), Absent, Title(<<"A", " ">>, <<" ", "B">>, L15, <<>>),
             List(<<Market("Total de Gols", <<Opt(L15, Num(195))>>)>>)),
       \* 3: the same event and odd, the line written "1,5" in the title
       Event(Str(<<"e1">>), Absent, Title(<<"A", " ">>, <<" ", "B">>, L15c, <<>>),
             List(<<Market("total de gols", <<Opt(L15, Num(185))>>)>>)),
       \* 4: a numeric eventId, the odd a string that float() reads as NaN
       Event(Absent, Num(7), Title(<<"A">>, <<" ">>, L25, <<>>),
             List(<<Market("Total de Gols",
                           <<Opt(L15, Num(300)), Opt(L25c, Str(<<"NaN">>))>>)>>)),
       \* 5: a title without "(x)"
       Event(Str(<<"e5">>), Absent,
             <<"A", " ", "B", " ", "para ter menos de", " ">> \o L15
                 \o <<" ", "gols na partida">>,
             List(<<Market("Total de Gols", <<Opt(L15, Num(185))>>)>>)),
       \* 6: a title that matches and no "Total de Gols" market
       Event(Str(<<"e6">>), Absent, Title(<<"A">>, <<"B">>, L15, <<>>),
             List(<<Market("Resultado", <<Opt(L15, Num(185))>>)>>)),
       \* 7: the first matching option has no odd, the second has one
       Event(Str(<<"e7">>), Absent, Title(<<"A">>, <<"B">>, L25, <<>>),
             List(<<Market("Resultado", <<Opt(L25, Num(300))>>),
                    Market("Total de Gols",
                           <<Opt(L25, Null), Opt(L25c, Str(<<"2", ".", "1">>))>>)>>)),
       \* 8: an element of the events list that is no dict
       NotAnEvent >>

\* The lists of at most n events of the pool.
RECURSIVE EventLists(_)
EventLists(n) ==
    IF n = 0 THEN {<<>>}
    ELSE LET shorter == EventLists(n - 1)
         IN  shorter \cup
             {Append(es, EventPool[j]) : es \in shorter, j \in 1..Len(EventPool)}

\* A document with one country and one tournament holding the events.
Doc(countries) ==
    [t |-> "obj", data |-> [t |-> "obj", countries |-> countries]]
Wrap(events) == Doc(List(<<Country(List(<<Tourn(List(events))>>))>>))

\* The documents fetch_json can return: the lists of events, and documents
\* with levels that are null, absent or of the wrong type.
Payloads ==
    {Wrap(es) : es \in EventLists(MaxEvents)} \cup
    { [t |-> "null", data |-> [t |-> "absent", countries |-> NoList]],
      [t |-> "obj", data |-> [t |-> "null", countries |-> NoList]],
      Doc(NoList),
      Doc(BadList),
      Doc(List(<<Country(NullList),
                 Country(List(<<Tourn(NoList),
                                Tourn(List(<<EventPool[2]>>))>>))>>)),
      \* two countries, three tournaments, four picks of three keys
      Doc(List(<<Country(List(<<Tourn(List(<<EventPool[7]>>)),
                                Tourn(List(<<EventPool[1], EventPool[2]>>))>>)),
                 Country(List(<<Tourn(List(<<EventPool[4]>>))>>))>>)) }

\* ------------------------------------------------------------ the store
\* {} (line 203).
EmptyStore == [k \in {} |-> 0]

\* last_sent.get(k) (line 214).
Get(store, k) == IF k \in DOMAIN store THEN store[k] ELSE None

\* last_sent[k] = odd (lines 222, 224).
Put(store, k, odd) ==
    [x \in DOMAIN store \cup {k} |-> IF x = k THEN odd ELSE store[x]]

\* The diff loop (lines 210-218) over the picks from i on, against the
\* store, which the loop only reads: the lists new_picks and changed_picks,
\* the latter of pairs <<pick, prev>>.
\* Classify, were the store written inside the loop.
RECURSIVE ClassifyEager(_, _, _)
ClassifyEager(ps, i, store) ==
    IF i > Len(ps) THEN [new |-> <<>>, changed |-> <<>>]
    ELSE With(ps[i], LAMBDA p :
         With(Get(store, key(p)), LAMBDA prev :
         With(ClassifyEager(ps, i + 1, Put(store, key(p), p.odd)), LAMBDA rest :
             IF prev = None
             THEN [new |-> <<p>> \o rest.new, changed |-> rest.changed]
             ELSE IF FloatNe(p.odd, prev)
             THEN [new |-> rest.new, changed |-> <<<<p, prev>>>> \o rest.changed]
             ELSE rest)))

RECURSIVE Classify(_, _, _)
Classify(ps, i, store) ==
    IF i > Len(ps) THEN [new |-> <<>>, changed |-> <<>>]
    ELSE With(ps[i], LAMBDA p :
         With(Get(store, key(p)), LAMBDA prev :
         With(Classify(ps, i + 1, store), LAMBDA rest :
             IF prev = None
             THEN [new |-> <<p>> \o rest.new, changed |-> rest.changed]
             ELSE IF FloatNe(p.odd, prev)
             THEN [new |-> rest.new, changed |-> <<<<p, prev>>>> \o rest.changed]
             ELSE rest)))

\* StateUpdates, were the Changed picks left for after their sends.
StateUpdatesNewOnly(new, changed) ==
    [j \in 1..Len(new) |-> <<key(new[j]), new[j].odd>>]

\* The writes of lines 221-224, in order, as pairs <<key, odd>>.
StateUpdates(new, changed) ==
    [j \in 1..Len(new) |-> <<key(new[j]), new[j].odd>>] \o
    [j \in 1..Len(changed) |-> <<key(changed[j][1]), changed[j][1].odd>>]

\* ApplyWrites, were the store rebuilt from the round's writes.
RECURSIVE ApplyWritesAfresh(_, _)
ApplyWritesAfresh(store, ws) ==
    With(ws, LAMBDA w :
        IF w = <<>> THEN EmptyStore
        ELSE With(ApplyWritesAfresh(store, SubSeq(w, 1, Len(w) - 1)), LAMBDA st :
                 Put(st, w[Len(w)][1], w[Len(w)][2])))

\* The store after the writes ws.
RECURSIVE ApplyWrites(_, _)
ApplyWrites(store, ws) ==
    With(store, LAMBDA st :
    With(ws, LAMBDA w :
        IF w = <<>> THEN st
        ELSE ApplyWrites(Put(st, w[1][1], w[1][2]), Tail(w))))

\* --------------------------------------------------------- the messages
\* A message is the sequence of its characters, one token each; a character
\* outside ASCII is written as its code point.
\* "<b>[house] Casa:</b> Betesporte\n<b>[target] Mercado:</b> " (lines 79-80)
NewHead ==
    << "<", "b", ">", "U+1F3E0", " ", "C", "a", "s", "a", ":", "<", "/", "b",
       ">", " ", "B", "e", "t", "e", "s", "p", "o", "r", "t", "e", "U+000A",
       "<", "b", ">", "U+1F3AF", " ", "M", "e", "r", "c", "a", "d", "o", ":",
       "<", "/", "b", ">", " " >>

\* "\n\n[pin] <b>Odd:</b> " (lines 80-81, 89-90)
OddHead ==
    << "U+000A", "U+000A", "U+1F4CC", " ", "<", "b", ">", "O", "d", "d", ":",
       "<", "/", "b", ">", " " >>

\* "<b>[repeat] MUDANCA DE ODD " (line 87), its C with a cedilla
ChangeHead ==
    << "<", "b", ">", "U+1F501", " ", "M", "U", "D", "A", "N", "U+00C7", "A",
       " ", "D", "E", " ", "O", "D", "D", " " >>

\* "</b>\n" (line 87)
ChangeHeadEnd ==
    << "<", "/", "b", ">", "U+000A" >>

\* "<s>" (line 90)
StruckOpen ==
    << "<", "s", ">" >>

\* "</s> [arrow] <b>" (line 90)
StruckClose ==
    << "<", "/", "s", ">", " ", "U+2192", " ", "<", "b", ">" >>

\* "</b>" (line 90)
BoldClose ==
    << "<", "/", "b", ">" >>

\* " (x) " (line 74)
TitleX ==
    << " ", "(", "x", ")", " " >>

\* " para ter menos de " (line 74)
TitlePara ==
    << " ", "p", "a", "r", "a", " ", "t", "e", "r", " ", "m", "e", "n", "o",
       "s", " ", "d", "e", " " >>

\* " gols na partida" (line 74)
TitleGols ==
    << " ", "g", "o", "l", "s", " ", "n", "a", " ", "p", "a", "r", "t", "i",
       "d", "a" >>

\* "\n\n" (line 96)
BlankLine ==
    << "U+000A", "U+000A" >>

\* The ellipsis of line 97, one character.
Ellipsis ==
    << "U+2026" >>

\* The arrows of line 85; the flat one is two code points.
ArrowUp ==
    << "U+1F4C8" >>
ArrowDown ==
    << "U+1F4C9" >>
ArrowFlat ==
    << "U+2194", "U+FE0F" >>

\* The longest text build_group_new_messages returns whole, and what it
\* keeps of a longer one (line 97).
MsgCap == 4096
MsgKeep == 4090

\* The characters of a token of the model's texts.
Chars(tok) ==
    CASE tok = "Time da Casa" ->
             << "T", "i", "m", "e", " ", "d", "a", " ", "C", "a", "s", "a" >>
      [] tok = "Time Visitante" ->
             << "T", "i", "m", "e", " ", "V", "i", "s", "i", "t", "a", "n",
                "t", "e" >>
      [] tok = "(x)" -> << "(", "x", ")" >>
      [] OTHER -> << tok >>

\* The characters of a text.
RECURSIVE SpellFrom(_, _)
SpellFrom(t, j) ==
    IF j > Len(t) THEN <<>> ELSE Chars(t[j]) \o SpellFrom(t, j + 1)
Spell(text) ==
    With(text, LAMBDA t :
        IF \A j \in 1..Len(t) : Chars(t[j]) = <<t[j]>> THEN t
        ELSE SpellFrom(t, 1))

\* UnderPick.title (lines 73-74).
title(p) ==
    Spell(p.home) \o TitleX \o Spell(p.away) \o TitlePara
        \o Spell(p.line_raw) \o TitleGols

\* fmt_odd (lines 51-56): two decimals, then the trailing zeros and a
\* trailing "." stripped: "1.85", "1.9", "2"; "nan" for NaN.
fmt_odd(x) ==
    IF x = NaN THEN << "n", "a", "n" >>
    ELSE IntStr(x \div 100) \o
         (IF x % 100 = 0 THEN <<>>
          ELSE IF x % 10 = 0 THEN << ".", Digits[((x % 100) \div 10) + 1] >>
          ELSE << ".", Digits[((x % 100) \div 10) + 1], Digits[(x % 10) + 1] >>)

\* build_new_message (lines 77-82).
build_new_message(p) ==
    With(p, LAMBDA q : NewHead \o title(q) \o OddHead \o fmt_odd(q.odd))

\* x > y and x < y on floats (line 85): false when either is NaN.
FloatGt(x, y) == x # NaN /\ y # NaN /\ x > y
FloatLt(x, y) == x # NaN /\ y # NaN /\ x < y

\* The arrow of line 85.
Arrow(p, old_odd) ==
    IF FloatGt(p.odd, old_odd) THEN ArrowUp
    ELSE IF FloatLt(p.odd, old_odd) THEN ArrowDown
    ELSE ArrowFlat

\* build_change_message (lines 84-91).
build_change_message(p, old_odd) ==
    ChangeHead \o Arrow(p, old_odd) \o ChangeHeadEnd
        \o NewHead \o title(p) \o OddHead
        \o StruckOpen \o fmt_odd(old_odd) \o StruckClose
        \o fmt_odd(p.odd) \o BoldClose

\* "\n\n".join(blocks) (line 96).
RECURSIVE JoinFrom(_, _)
JoinFrom(blocks, j) ==
    IF j > Len(blocks) THEN <<>>
    ELSE IF j = Len(blocks) THEN blocks[j]
    ELSE blocks[j] \o BlankLine \o JoinFrom(blocks, j + 1)

\* build_group_new_messages, were the text cut at the cap itself.
build_group_new_messagesCutAtCap(ps) ==
    With([j \in 1..Len(ps) |-> build_new_message(ps[j])], LAMBDA blocks :
    With(JoinFrom(blocks, 1), LAMBDA msg :
        IF Len(msg) > MsgCap THEN SubSeq(msg, 1, MsgCap) \o Ellipsis ELSE msg))

\* build_group_new_messages (lines 93-97).
build_group_new_messages(ps) ==
    With([j \in 1..Len(ps) |-> build_new_message(ps[j])], LAMBDA blocks :
    With(JoinFrom(blocks, 1), LAMBDA msg :
        IF Len(msg) > MsgCap THEN SubSeq(msg, 1, MsgKeep) \o Ellipsis ELSE msg))

\* ------------------------------------------------------------ the state
VARIABLES
    separately,     \* SEND_EACH_EVENT_SEPARATELY (line 16), as configured
    last_sent,      \* the store: key -> last odd (line 203)
    pc,             \* where run_bot is suspended
    data,           \* the document of this round's fetch
    picks,          \* this round's picks (line 208)
    new_picks,      \* line 210
    changed_picks,  \* line 211
    i,              \* the index of the next pick to send
    cause,          \* what raised in this round: "none", "fetch", "extract", "send"
    log,            \* history: this round's calls of bot.send_message
    writes,         \* history: this round's writes to last_sent
    start_sent,     \* history: last_sent when the round started
    hist,           \* history: the previous round, where it is followed
    boot,           \* history: how the process started, until a round succeeds
    fj,             \* the frame of a call of fetch_json taken on its own
    arg,            \* the argument of a function taken on its own
    res             \* and its result

\* The variables of run_bot, and those of the functions taken on their own.
loop == << separately, last_sent, pc, data, picks, new_picks, changed_picks,
           i, cause, log, writes, start_sent, hist, boot >>
aux == << fj, arg, res >>
vars == << loop, aux >>

NoData == [t |-> "null", data |-> [t |-> "absent", countries |-> NoList]]
NoHist ==
    [ok |-> FALSE, sendfail |-> FALSE, data |-> NoData, picks |-> <<>>,
     skipped |-> <<>>]
HistOff == [on |-> FALSE, n |-> 0, prev |-> NoHist]

\* A call of bot.send_message: what it carries and whether it succeeded.
Sent(kind, ps, old, ok) == [kind |-> kind, picks |-> ps, old |-> old, ok |-> ok]

\* The process from its start until a round of it gets through the diff:
\* phase is "started", "restarted" (before: the store the process that was
\* running before it had) or "running".
Started == [phase |-> "started", before |-> EmptyStore]
Running == [phase |-> "running", before |-> EmptyStore]

\* No function is being taken on its own.
NoCall == [fn |-> "none", v |-> <<>>]
Idle == fj = NoCall /\ arg = NoCall /\ res = NoCall

InitRound ==
    /\ last_sent = EmptyStore
    /\ pc = "fetch"
    /\ data = NoData
    /\ picks = <<>> /\ new_picks = <<>> /\ changed_picks = <<>>
    /\ i = 1
    /\ cause = "none"
    /\ log = <<>> /\ writes = <<>>
    /\ start_sent = EmptyStore

\* The state after line 203: an empty store, in either sending mode.
Init ==
    /\ separately \in BOOLEAN
    /\ InitRound
    /\ hist = HistOff
    /\ boot = Started
    /\ Idle

\* The same, with the history of the previous round kept.
InitHist ==
    /\ separately \in BOOLEAN
    /\ InitRound
    /\ hist = [on |-> TRUE, n |-> 0, prev |-> NoHist]
    /\ boot = Started
    /\ Idle

\* AfterDiff, were the Changed picks sent first.
AfterDiffChangedFirst(new, changed) ==
    IF changed # <<>> THEN "send_changed"
    ELSE IF new # <<>> THEN "send_new"
    ELSE "sleep"

\* Where the sends start after the diff (lines 227, 246).
AfterDiff(new, changed) ==
    IF new # <<>> THEN "send_new"
    ELSE IF changed # <<>> THEN "send_changed"
    ELSE "sleep"

\* FetchFails, were the failure passed over without a report.
FetchFailsUnreported ==
    /\ pc = "fetch"
    /\ pc' = "sleep"
    /\ cause' = "fetch"
    /\ UNCHANGED << aux, boot, separately, last_sent, data, picks, new_picks,
                    changed_picks, i, log, writes, start_sent, hist >>

\* fetch_json raises (line 207): the round goes to the handler of line 254.
FetchFails ==
    /\ pc = "fetch"
    /\ pc' = "report"
    /\ cause' = "fetch"
    /\ UNCHANGED << aux, boot, separately, last_sent, data, picks, new_picks,
                    changed_picks, i, log, writes, start_sent, hist >>

\* fetch_json returns d and extract_picks raises on it (line 208).
ExtractFails ==
    /\ pc = "fetch"
    /\ \E d \in Payloads :
          /\ extract_picks(d).raised
          /\ data' = d
    /\ pc' = "report"
    /\ cause' = "extract"
    /\ UNCHANGED << aux, boot, separately, last_sent, picks, new_picks, changed_picks,
                    i, log, writes, start_sent, hist >>

\* fetch_json returns d; the picks are extracted, classified and recorded
\* (lines 207-224), up to the first await of a send.
Diff ==
    /\ pc = "fetch"
    /\ \E d \in Payloads :
       \E ex \in {extract_picks(d)} :
       \E c \in {Classify(ex.out, 1, last_sent)} :
       \E ws \in {StateUpdates(c.new, c.changed)} :
          /\ ~ex.raised
          /\ data' = d
          /\ picks' = ex.out
          /\ new_picks' = c.new
          /\ changed_picks' = c.changed
          /\ writes' = ws
          /\ last_sent' = ApplyWrites(last_sent, ws)
          /\ pc' = AfterDiff(c.new, c.changed)
    /\ i' = 1
    /\ UNCHANGED << aux, boot, separately, cause, log, start_sent, hist >>

\* Lines 229-235: one message for the New pick i, and on to the next.
SendNewEach ==
    /\ pc = "send_new" /\ separately
    /\ log' = Append(log, Sent("new", <<new_picks[i]>>, None, TRUE))
    /\ IF i < Len(new_picks)
       THEN /\ i' = i + 1
            /\ pc' = pc
       ELSE /\ i' = 1
            /\ pc' = AfterDiff(<<>>, changed_picks)
    /\ UNCHANGED << aux, boot, separately, last_sent, data, picks, new_picks,
                    changed_picks, cause, writes, start_sent, hist >>

\* Lines 237-243: one message for all the New picks.
SendNewGroup ==
    /\ pc = "send_new" /\ ~separately
    /\ log' = Append(log, Sent("group", new_picks, None, TRUE))
    /\ i' = 1
    /\ pc' = AfterDiff(<<>>, changed_picks)
    /\ UNCHANGED << aux, boot, separately, last_sent, data, picks, new_picks,
                    changed_picks, cause, writes, start_sent, hist >>

\* Lines 246-252: one message for the Changed pick i, with its old odd.
SendChange ==
    /\ pc = "send_changed"
    /\ log' = Append(log, Sent("change", <<changed_picks[i][1]>>,
                               changed_picks[i][2], TRUE))
    /\ IF i < Len(changed_picks)
       THEN /\ i' = i + 1
            /\ pc' = pc
       ELSE /\ i' = 1
            /\ pc' = "sleep"
    /\ UNCHANGED << aux, boot, separately, last_sent, data, picks, new_picks,
                    changed_picks, cause, writes, start_sent, hist >>

\* The message the failing send was to carry.
Pending ==
    IF pc = "send_changed"
    THEN Sent("change", <<changed_picks[i][1]>>, changed_picks[i][2], FALSE)
    ELSE IF separately THEN Sent("new", <<new_picks[i]>>, None, FALSE)
    ELSE Sent("group", new_picks, None, FALSE)

\* bot.send_message raises at line 230, 239 or 247: the rest of the try
\* block is skipped.
SendFails ==
    /\ pc \in {"send_new", "send_changed"}
    /\ log' = Append(log, Pending)
    /\ cause' = "send"
    /\ pc' = "report"
    /\ UNCHANGED << aux, boot, separately, last_sent, data, picks, new_picks,
                    changed_picks, i, writes, start_sent, hist >>

\* The handler's own send (lines 256-260) succeeds.
Report ==
    /\ pc = "report"
    /\ log' = Append(log, Sent("error", <<>>, None, TRUE))
    /\ pc' = "sleep"
    /\ UNCHANGED << aux, boot, separately, last_sent, data, picks, new_picks,
                    changed_picks, i, cause, writes, start_sent, hist >>

\* ReportFails, were the report tried again.
ReportFailsRetried ==
    /\ pc = "report"
    /\ Len(log) < 6
    /\ log' = Append(log, Sent("error", <<>>, None, FALSE))
    /\ pc' = "report"
    /\ UNCHANGED << aux, boot, separately, last_sent, data, picks, new_picks,
                    changed_picks, i, cause, writes, start_sent, hist >>

\* ReportFails, were the inner try missing: the exception leaves run_bot.
ReportFailsUncaught ==
    /\ pc = "report"
    /\ log' = Append(log, Sent("error", <<>>, None, FALSE))
    /\ pc' = "exit"
    /\ UNCHANGED << aux, boot, separately, last_sent, data, picks, new_picks,
                    changed_picks, i, cause, writes, start_sent, hist >>

\* The handler's own send raises and line 261 swallows it.
ReportFails ==
    /\ pc = "report"
    /\ log' = Append(log, Sent("error", <<>>, None, FALSE))
    /\ pc' = "sleep"
    /\ UNCHANGED << aux, boot, separately, last_sent, data, picks, new_picks,
                    changed_picks, i, cause, writes, start_sent, hist >>

\* The number of calls of bot.send_message of a kind made in the round.
Attempts(kind) == Len(SelectSeq(log, LAMBDA e : e.kind = kind))

\* The picks whose notification the round did not come to attempt, a send
\* before theirs having raised: the New picks after the one that failed
\* (separate mode; the grouped message is the round's first send), then the
\* Changed picks after the one that failed, or all of them.
Skipped ==
    IF cause # "send" THEN <<>>
    ELSE (IF separately
          THEN SubSeq(new_picks, Attempts("new") + 1, Len(new_picks))
          ELSE <<>>)
         \o [j \in 1..(Len(changed_picks) - Attempts("change")) |->
                changed_picks[Attempts("change") + j][1]]

\* What the round leaves for the next one to look back on.
ThisRound ==
    [ok |-> cause \notin {"fetch", "extract"},
     sendfail |-> cause = "send",
     data |-> data,
     picks |-> picks,
     skipped |-> Skipped]

\* Line 265: the sleep between rounds ends and the next round starts.
Sleep ==
    /\ pc = "sleep"
    /\ pc' = "fetch"
    /\ data' = NoData
    /\ picks' = <<>> /\ new_picks' = <<>> /\ changed_picks' = <<>>
    /\ i' = 1
    /\ cause' = "none"
    /\ log' = <<>> /\ writes' = <<>>
    /\ start_sent' = last_sent
    /\ hist' = IF hist.on /\ hist.n + 1 < FollowRounds
               THEN [on |-> TRUE, n |-> hist.n + 1, prev |-> ThisRound]
               ELSE HistOff
    /\ boot' = IF ThisRound.ok THEN Running ELSE boot
    /\ UNCHANGED << aux, separately, last_sent >>

Next ==
    \/ FetchFails
    \/ ExtractFails
    \/ Diff
    \/ SendNewEach
    \/ SendNewGroup
    \/ SendChange
    \/ SendFails
    \/ Report
    \/ ReportFails
    \/ Sleep

Spec == Init /\ [][Next]_vars

\* Spec, looking back on the previous round during the first rounds.
SpecHist == InitHist /\ [][Next]_vars

\* Restart, were the store kept from one process to the next.
RestartKeepingStore ==
    /\ boot' = [phase |-> "restarted", before |-> last_sent]
    /\ last_sent' = last_sent
    /\ start_sent' = last_sent
    /\ pc' = "fetch"
    /\ data' = NoData
    /\ picks' = <<>> /\ new_picks' = <<>> /\ changed_picks' = <<>>
    /\ i' = 1
    /\ cause' = "none"
    /\ log' = <<>> /\ writes' = <<>>
    /\ hist' = HistOff
    /\ UNCHANGED << aux, separately >>

\* The process ends, wherever it is, and is started again: run_bot begins
\* anew with the store of line 203.
Restart ==
    /\ boot' = [phase |-> "restarted", before |-> last_sent]
    /\ last_sent' = EmptyStore
    /\ start_sent' = EmptyStore
    /\ pc' = "fetch"
    /\ data' = NoData
    /\ picks' = <<>> /\ new_picks' = <<>> /\ changed_picks' = <<>>
    /\ i' = 1
    /\ cause' = "none"
    /\ log' = <<>> /\ writes' = <<>>
    /\ hist' = HistOff
    /\ UNCHANGED << aux, separately >>

\* Spec, with the process restarted at any time.
NextOrRestart == Next \/ Restart
SpecRestart == Init /\ [][NextOrRestart]_vars

\* ------------------------------------- build_group_new_messages, alone
\* The lengths of the home names of the picks given to it: they put the
\* joined text of one pick and of two at the cap, one past it, and the cut
\* inside a block and inside the blank line.
NameLens == << 1, 3877, 3878, 3981, 3988, 3989 >>
Filler(n) == [k \in 1..n |-> "A"]
GroupPool ==
    [j \in 1..Len(NameLens) |->
        UnderPick(<<"e">> \o IntStr(j), Filler(NameLens[j]), <<"B">>, L15, 185)]

\* The lists of at most n picks of the pool.
RECURSIVE GroupLists(_)
GroupLists(n) ==
    IF n = 0 THEN {<<>>}
    ELSE LET shorter == GroupLists(n - 1)
         IN  shorter \cup
             {Append(ps, GroupPool[j]) : ps \in shorter, j \in 1..Len(GroupPool)}

\* run_bot at its start, no round begun.
LoopAtStart ==
    /\ separately = FALSE
    /\ InitRound
    /\ hist = HistOff
    /\ boot = Started

InitGroup ==
    /\ LoopAtStart
    /\ fj = NoCall
    /\ arg \in {[fn |-> "build_group_new_messages", v |-> ps] :
                   ps \in GroupLists(MaxGroup)}
    /\ res = NoCall

\* The call returns (lines 95-97).
ApplyGroup ==
    /\ arg.fn = "build_group_new_messages"
    /\ res.fn = "none"
    /\ res' = [fn |-> arg.fn, v |-> build_group_new_messages(arg.v)]
    /\ UNCHANGED << loop, fj, arg >>

SpecGroup == InitGroup /\ [][ApplyGroup]_vars

\* ------------------------------------------------- extract_picks, alone
\* A key holding a list that is absent or null.
Holes == {NoList, NullList}

\* An event whose title matches and whose markets are m.
EventOf(id, m) ==
    Event(Str(<<id>>), Absent, Title(<<"C">>, <<"D">>, L25, <<>>), m)

\* Documents with one level absent or null, beside a branch with the event
\* e, before it (first) or after it.
Beside(h, e, first) ==
    LET good == Country(List(<<Tourn(List(<<e>>))>>))
        two(a, b) == IF first THEN <<a, b>> ELSE <<b, a>>
        market == Market("Total de Gols", <<Opt(L25, Num(240))>>)
        nolist == [isdict |-> TRUE, name |-> Str(<<"Total de Gols">>),
                   options |-> h]
    IN  { \* no tournaments in a country
          Doc(List(two(Country(h), good))),
          \* no events in a tournament
          Doc(List(<<Country(List(two(Tourn(h), Tourn(List(<<e>>)))))>>)),
          \* no markets in an event
          Wrap(two(EventOf("e8", h), e)),
          \* no options in a market, beside a market that has them
          Wrap(two(EventOf("e9", List(two(nolist, market))), e)) }

HolePayloads ==
    { [t |-> "null", data |-> [t |-> "absent", countries |-> NoList]],
      [t |-> "obj", data |-> [t |-> "absent", countries |-> NoList]],
      [t |-> "obj", data |-> [t |-> "null", countries |-> NoList]],
      Doc(NoList), Doc(NullList) } \cup
    UNION { Beside(h, EventPool[j], first) :
                h \in Holes, j \in {1, 4, 7}, first \in BOOLEAN }

\* More events: titles with something after "partida", and two markets
\* named "total de gols".
ExtraEvents ==
    << \* punctuation after "partida"
       Event(Str(<<"x1">>), Absent, Title(<<"A">>, <<"B">>, L25, <<"!">>),
             List(<<Market("Total de Gols", <<Opt(L25, Num(230))>>)>>)),
       \* words after "partida"
       Event(Str(<<"x2">>), Absent,
             Title(<<"A">>, <<"B">>, L15, <<" ", "o", "u", " ", "n", "a", "o">>),
             List(<<Market("Total de Gols", <<Opt(L15, Num(230))>>)>>)),
       \* whitespace after "partida", and before the home name
       Event(Str(<<"x3">>), Absent,
             Title(<<" ", "A">>, <<"B">>, L15, <<" ", " ">>),
             List(<<Market("Total de Gols", <<Opt(L15, Num(230))>>)>>)),
       \* words between the line and "gols na partida"
       Event(Str(<<"x4">>), Absent,
             <<"A", "(x)", "B", " ", "para ter menos de", " ">> \o L15
                 \o <<" ", "o", "u", " ", "gols na partida">>,
             List(<<Market("Total de Gols", <<Opt(L15, Num(230))>>)>>)),
       \* the first market's matching option has no odd, the second's has
       Event(Str(<<"x5">>), Absent, Title(<<"A">>, <<"B">>, L25, <<>>),
             List(<<Market("Total de Gols", <<Opt(L25, Str(<<"-">>))>>),
                    Market("Resultado", <<Opt(L25, Num(300))>>),
                    Market("total de gols",
                           <<Opt(L15, Num(250)), Opt(L25c, Num(220)),
                             Opt(L25, Num(260))>>)>>)) >>

\* The documents given to extract_picks on its own.
ExtractInputs ==
    Payloads \cup HolePayloads \cup
    {Wrap(<<ExtraEvents[j]>>) : j \in 1..Len(ExtraEvents)} \cup
    {Wrap(<<EventPool[k], ExtraEvents[j]>>) :
        k \in {1, 6}, j \in 1..Len(ExtraEvents)}

InitExtract ==
    /\ LoopAtStart
    /\ fj = NoCall
    /\ arg \in {[fn |-> "extract_picks", v |-> d] : d \in ExtractInputs}
    /\ res = NoCall

\* The call returns or raises (lines 150-195).
ApplyExtract ==
    /\ arg.fn = "extract_picks"
    /\ res.fn = "none"
    /\ res' = [fn |-> arg.fn, v |-> extract_picks(arg.v)]
    /\ UNCHANGED << loop, fj, arg >>

SpecExtract == InitExtract /\ [][ApplyExtract]_vars

\* ----------------------------------------------------- fetch_json, alone
\* What one attempt (lines 112-114) can come to: the document of r.json(),
\* an error of the two classes caught at line 115, or any other error
\* (r.json() raising ValueError on a body that is not JSON).
Caught == {"HTTPStatusError", "RequestError"}
Uncaught == {"ValueError"}

\* The error of a class raised by the at-th attempt; None; and the
\* RuntimeError of line 118.
Exc(kind, at) == [kind |-> kind, at |-> at]
NoExc == Exc("None", 0)
RuntimeError == Exc("RuntimeError", 0)

\* The documents the attempts can return.
FetchDocs == {NoData, Doc(NoList), Doc(BadList)}

\* The values of backoff, in hundredths of a second (1.5 is the default).
Backoffs == {50, 150}

\* How the call ends.
Returns(d) == [kind |-> "return", doc |-> d, exc |-> NoExc]
Raises(e) == [kind |-> "raise", doc |-> NoData, exc |-> e]

\* The frame of the call at the head of the loop of line 110: the loop
\* variable, last_exc, and for the record the attempts made and the
\* sleeps slept.
InitFetch ==
    /\ LoopAtStart
    /\ arg \in {[fn |-> "fetch_json",
                  v |-> [max_retries |-> m, backoff |-> b]] :
                     m \in 0..MaxRetries, b \in Backoffs}
    /\ fj = [fn |-> "fetch_json", pc |-> "get", i |-> 1, last_exc |-> NoExc,
             tried |-> <<>>, slept |-> <<>>]
    /\ res = NoCall

\* range(1, max_retries + 1) has an i to give (line 110).
InRange == fj.i <= arg.v.max_retries

\* The attempt succeeds and the call returns its document (lines 112-114).
GetReturns ==
    /\ fj.fn = "fetch_json" /\ fj.pc = "get" /\ InRange
    /\ \E d \in FetchDocs :
          /\ fj' = [fj EXCEPT !.pc = "done",
                              !.tried = Append(@, Returns(d))]
          /\ res' = [fn |-> "fetch_json", v |-> Returns(d)]
    /\ UNCHANGED << loop, arg >>

\* GetFails, were every error caught at line 115.
GetFailsAnyError ==
    /\ fj.fn = "fetch_json" /\ fj.pc = "get" /\ InRange
    /\ \E k \in Caught \cup Uncaught :
          fj' = [fj EXCEPT !.pc = "sleep",
                           !.last_exc = Exc(k, fj.i),
                           !.tried = Append(@, Raises(Exc(k, fj.i)))]
    /\ UNCHANGED << loop, arg, res >>

\* The attempt raises an error of the classes of line 115, which is kept
\* in last_exc (line 116).
GetFails ==
    /\ fj.fn = "fetch_json" /\ fj.pc = "get" /\ InRange
    /\ \E k \in Caught :
          fj' = [fj EXCEPT !.pc = "sleep",
                           !.last_exc = Exc(k, fj.i),
                           !.tried = Append(@, Raises(Exc(k, fj.i)))]
    /\ UNCHANGED << loop, arg, res >>

\* The attempt raises an error line 115 does not catch: it leaves the call.
GetRaises ==
    /\ fj.fn = "fetch_json" /\ fj.pc = "get" /\ InRange
    /\ \E k \in Uncaught :
          /\ fj' = [fj EXCEPT !.pc = "done",
                              !.tried = Append(@, Raises(Exc(k, fj.i)))]
          /\ res' = [fn |-> "fetch_json", v |-> Raises(Exc(k, fj.i))]
    /\ UNCHANGED << loop, arg >>

\* asyncio.sleep(backoff * i) returns (line 117) and the loop takes the
\* next i.
SleepBackoff ==
    /\ fj.fn = "fetch_json" /\ fj.pc = "sleep"
    /\ fj' = [fj EXCEPT !.pc = "get",
                        !.i = @ + 1,
                        !.slept = Append(@, arg.v.backoff * fj.i)]
    /\ UNCHANGED << loop, arg, res >>

\* The loop has run out: line 118 raises last_exc, or RuntimeError if
\* there is none.
Exhausted ==
    /\ fj.fn = "fetch_json" /\ fj.pc = "get" /\ ~InRange
    /\ fj' = [fj EXCEPT !.pc = "done"]
    /\ res' = [fn |-> "fetch_json",
               v |-> Raises(IF fj.last_exc # NoExc THEN fj.last_exc
                                                  ELSE RuntimeError)]
    /\ UNCHANGED << loop, arg >>

NextFetch ==
    \/ GetReturns
    \/ GetFails
    \/ GetRaises
    \/ SleepBackoff
    \/ Exhausted

\* The event loop runs the coroutine on: client.get ends within its
\* timeout (line 101) and the sleep within its delay.
SpecFetch == InitFetch /\ [][NextFetch]_vars /\ WF_vars(NextFetch)

\* ------------------------------------------------------------ the claims
\* The round has passed the diff of lines 210-224.
Diffed ==
    \/ pc \in {"send_new", "send_changed"}
    \/ pc \in {"report", "sleep"} /\ cause \notin {"fetch", "extract"}

\* The classes of a pick against the store as the round found it.
IsNew(p) == key(p) \notin DOMAIN start_sent
IsChanged(p) ==
    key(p) \in DOMAIN start_sent /\ FloatNe(p.odd, start_sent[key(p)])
IsUnchanged(p) == ~IsNew(p) /\ ~IsChanged(p)

Range(f) == {f[x] : x \in DOMAIN f}

\* C1: in every round each extracted pick is classified against the store
\* as it was when the round started: new_picks are exactly the picks whose
\* key is absent from it, changed_picks exactly the picks whose key is
\* present with a different odd (paired with the stored odd), in order;
\* every message sent and every write to the store is for a New or a
\* Changed pick, so an Unchanged pick causes neither.
C1_ClassifiedAgainstStartOfRound ==
    Diffed =>
        /\ new_picks = SelectSeq(picks, IsNew)
        /\ Len(changed_picks) = Len(SelectSeq(picks, IsChanged))
        /\ \A j \in 1..Len(changed_picks) :
              changed_picks[j] =
                  << SelectSeq(picks, IsChanged)[j],
                     start_sent[key(SelectSeq(picks, IsChanged)[j])] >>
        /\ \A e \in Range(log) : \A q \in Range(e.picks) : ~IsUnchanged(q)
        /\ \A w \in Range(writes) :
              \E q \in Range(picks) :
                  ~IsUnchanged(q) /\ w = <<key(q), q.odd>>
        /\ \A k \in DOMAIN last_sent :
              (\A q \in Range(picks) : key(q) = k => IsUnchanged(q))
                  => k \in DOMAIN start_sent /\ last_sent[k] = start_sent[k]

\* A round that classified one pick Changed and the other Unchanged and
\* has sent its one message.
C1_Witness ==
    /\ pc = "sleep" /\ cause = "none"
    /\ Len(picks) = 2 /\ Len(changed_picks) = 1 /\ new_picks = <<>>
    /\ \E q \in Range(picks) : IsUnchanged(q)
    /\ Len(log) = 1

\* C2: once a round has passed the diff, and so before its first send,
\* the store has been written with the current odd of every New and every
\* Changed pick (the store is the round's starting store with these writes
\* applied in order); and once a send has been attempted in a round the
\* store is not written again in that round.
C2_StoreUpdatedBeforeSends ==
    /\ [](Diffed =>
            /\ \A p \in Range(new_picks) : <<key(p), p.odd>> \in Range(writes)
            /\ \A c \in Range(changed_picks) :
                  <<key(c[1]), c[1].odd>> \in Range(writes)
            /\ last_sent = ApplyWrites(start_sent, writes)
            /\ \A k \in DOMAIN last_sent :
                  \/ k \in DOMAIN start_sent /\ last_sent[k] = start_sent[k]
                  \/ \E p \in Range(new_picks) \cup {c[1] : c \in Range(changed_picks)} :
                        key(p) = k /\ last_sent[k] = p.odd)
    /\ [][log # <<>> => last_sent' = last_sent]_vars

\* A round with a New and a Changed pick, recorded, no send attempted yet.
C2_Witness ==
    /\ pc = "send_new" /\ log = <<>>
    /\ changed_picks # <<>>
    /\ Len(writes) = 2

\* C3: if a send failed in the previous round after its diff, a pick of
\* this round that the previous round extracted with the same key and the
\* same odd is classified Unchanged (and so is not announced again).
C3_LostNotRetried ==
    (Diffed /\ hist.prev.ok /\ hist.prev.sendfail) =>
        \A p \in Range(picks) : \A q \in Range(hist.prev.picks) :
            (key(q) = key(p) /\ FloatEq(q.odd, p.odd)) => IsUnchanged(p)

\* C4: no failure ends the loop: whatever raised in a round (the fetch,
\* the extraction, a send), the round is in the handler of line 254 or
\* past it; the handler's only step, whether its report succeeds or fails,
\* leads to the sleep of line 265; the only step from the sleep starts the
\* next round; and the loop always has a step to take.
C4_LoopSurvivesFailures ==
    /\ [](cause # "none" => pc \in {"report", "sleep"})
    /\ [][pc = "report" => pc' = "sleep"]_vars
    /\ [][pc = "sleep" => pc' = "fetch" /\ cause' = "none"]_vars
    /\ [](ENABLED Next)

\* The loop asleep after a send failed and the report of it failed too.
C4_Witness ==
    /\ pc = "sleep" /\ cause = "send"
    /\ ~log[Len(log)].ok /\ log[Len(log)].kind = "error"

\* C5: when the fetch or the extraction fails, the store stays as the round
\* found it, no pick notification is sent, and the round ends with exactly
\* one send, the error report.
C5_FailedFetchLeavesStore ==
    (cause \in {"fetch", "extract"}) =>
        /\ last_sent = start_sent
        /\ writes = <<>>
        /\ pc \in {"report", "sleep"}
        /\ pc = "report" => log = <<>>
        /\ pc = "sleep" => Len(log) = 1 /\ log[1].kind = "error"

\* A round whose extraction raised, reported, with a store that holds keys.
C5_Witness ==
    /\ pc = "sleep" /\ cause = "extract"
    /\ start_sent # EmptyStore
    /\ Len(log) = 1 /\ log[1].ok

\* C6: a round on the same document as the previous round's yields no New
\* and no Changed pick.
C6_Idempotent ==
    (Diffed /\ hist.prev.ok /\ data = hist.prev.data) =>
        new_picks = <<>> /\ changed_picks = <<>>

\* C7: the picks of a round have pairwise different keys.
C7_OnePickPerKey ==
    Diffed =>
        \A j1, j2 \in 1..Len(picks) :
            key(picks[j1]) = key(picks[j2]) => j1 = j2

\* C8: after a send fails, exactly one further send is attempted in the
\* round, the error report, whether or not it succeeds: a failed send is
\* the last call of the round or is followed by the report alone, and the
\* report is the last call of a round.
C8_OneReportThenSilence ==
    \A n \in 1..Len(log) :
        /\ log[n].kind = "error" => n = Len(log) /\ pc = "sleep"
        /\ (~log[n].ok /\ log[n].kind # "error") =>
              \/ n = Len(log) /\ pc = "report"
              \/ n = Len(log) - 1 /\ log[n + 1].kind = "error"

\* A send failed, the report of it failed, and the round is over.
C8_Witness ==
    /\ pc = "sleep" /\ cause = "send"
    /\ Len(log) >= 2
    /\ ~log[Len(log) - 1].ok /\ ~log[Len(log)].ok

\* C9: two picks of the same event whose lines are the same number have
\* the same key, and a pick that the previous round extracted with another
\* line text and the same odd is classified Unchanged.
C9_KeyIgnoresLineText ==
    (Diffed /\ hist.prev.ok) =>
        \A p \in Range(picks) : \A q \in Range(hist.prev.picks) :
            (/\ q.event_id = p.event_id
             /\ FloatEq(q.line, p.line)
             /\ q.line_raw # p.line_raw
             /\ FloatEq(q.odd, p.odd))
                => key(q) = key(p) /\ IsUnchanged(p)

\* C10: the keys of the store never shrink, and a key that no pick of the
\* round's extraction has keeps its odd.
C10_NoEviction ==
    [][ /\ DOMAIN last_sent \subseteq DOMAIN last_sent'
        /\ \A k \in DOMAIN last_sent :
              (\A q \in Range(picks') : key(q) # k)
                  => last_sent'[k] = last_sent[k] ]_vars

\* A round that wrote to the store while a stored key had no pick in it.
C10_Witness ==
    /\ Diffed /\ writes # <<>>
    /\ \E k \in DOMAIN start_sent :
          /\ \A q \in Range(picks) : key(q) # k
          /\ last_sent[k] = start_sent[k]

\* The calls of bot.send_message a round makes for its pick notifications
\* when no send fails, in order.
NewCalls ==
    IF separately
    THEN [j \in 1..Len(new_picks) |-> Sent("new", <<new_picks[j]>>, None, TRUE)]
    ELSE IF new_picks = <<>> THEN <<>>
    ELSE <<Sent("group", new_picks, None, TRUE)>>
ChangeCalls ==
    [j \in 1..Len(changed_picks) |->
        Sent("change", <<changed_picks[j][1]>>, changed_picks[j][2], TRUE)]

\* C11: in a round without send failures the messages are, in order: for
\* the New picks, one message with all of them in grouped mode and one
\* message each in separate mode; then one message for each Changed pick.
\* While the round is sending, its calls so far are the first of these.
C11_NewThenChanged ==
    (Diffed /\ cause = "none") =>
        /\ Len(log) <= Len(NewCalls \o ChangeCalls)
        /\ log = SubSeq(NewCalls \o ChangeCalls, 1, Len(log))
        /\ pc = "sleep" => log = NewCalls \o ChangeCalls

\* A grouped round over: one message with its three New picks, then one
\* with its Changed pick.
C11_Witness ==
    /\ pc = "sleep" /\ cause = "none" /\ ~separately
    /\ Len(new_picks) = 3 /\ Len(changed_picks) = 1
    /\ Len(log) = 2
    /\ log[1].kind = "group" /\ log[1].picks = new_picks
    /\ log[2].kind = "change"

\* Where each block starts in the joined text, less one: a block follows
\* the one before it and the two characters of the blank line.
RECURSIVE OffsetsOf(_, _)
OffsetsOf(blocks, k) ==
    IF k = 0 THEN <<>>
    ELSE IF k = 1 THEN <<0>>
    ELSE With(OffsetsOf(blocks, k - 1), LAMBDA o :
             Append(o, o[k - 1] + Len(blocks[k - 1]) + 2))

\* The character at pos of the blocks set one after another with a blank
\* line between them: a block's own character, or a line feed.
CharAt(blocks, offs, pos) ==
    IF \E k \in 1..Len(blocks) : offs[k] < pos /\ pos <= offs[k] + Len(blocks[k])
    THEN With(CHOOSE k \in 1..Len(blocks) :
                  offs[k] < pos /\ pos <= offs[k] + Len(blocks[k]),
              LAMBDA k : blocks[k][pos - offs[k]])
    ELSE "U+000A"

\* C12 for the picks ps and the text out returned for them.
GroupedRight(ps, out) ==
    With([j \in 1..Len(ps) |-> build_new_message(ps[j])], LAMBDA blocks :
    With(OffsetsOf(blocks, Len(blocks)), LAMBDA offs :
    With(IF blocks = <<>> THEN 0
         ELSE offs[Len(blocks)] + Len(blocks[Len(blocks)]), LAMBDA total :
        /\ Len(out) <= 4096
        /\ total <= 4096 =>
              /\ Len(out) = total
              /\ \A pos \in 1..total : out[pos] = CharAt(blocks, offs, pos)
        /\ total > 4096 =>
              /\ Len(out) = 4091
              /\ out[4091] = "U+2026"
              /\ \A pos \in 1..4090 : out[pos] = CharAt(blocks, offs, pos))))

\* C12: the text build_group_new_messages returns for a list of picks is
\* their blocks in order with a blank line between two of them when that
\* is at most 4096 characters long, and otherwise the first 4090
\* characters of it and an ellipsis; it is never longer than 4096.
C12_GroupedWithinCap ==
    res.fn = "build_group_new_messages" => GroupedRight(arg.v, res.v)

\* Two picks whose joined text is one character past the cap: the text
\* returned is cut inside the second block.
C12_Witness ==
    /\ res.fn = "build_group_new_messages"
    /\ Len(arg.v) = 2
    /\ Len(build_new_message(arg.v[1])) + 2
           + Len(build_new_message(arg.v[2])) = 4097
    /\ Len(res.v) = 4091
    /\ res.v[4091] = "U+2026"

\* A list key with [] where it was absent or null, its elements through F.
FilledList(v, F(_)) ==
    IF v.t \in {"absent", "null"} THEN List(<<>>)
    ELSE IF v.t = "list" THEN List([j \in 1..Len(v.l) |-> F(v.l[j])])
    ELSE v

\* A document with an empty list at every level that is absent or null.
FilledMarket(m) ==
    IF ~m.isdict THEN m
    ELSE [m EXCEPT !.options = FilledList(m.options, LAMBDA o : o)]
FilledEvent(e) ==
    IF ~e.isdict THEN e
    ELSE [e EXCEPT !.markets = FilledList(e.markets, FilledMarket)]
FilledTourn(t) ==
    IF ~t.isdict THEN t
    ELSE [t EXCEPT !.events = FilledList(t.events, FilledEvent)]
FilledCountry(c) ==
    IF ~c.isdict THEN c
    ELSE [c EXCEPT !.tournaments = FilledList(c.tournaments, FilledTourn)]
Filled(payload) ==
    IF payload.t = "obj" /\ payload.data.t = "obj"
    THEN Doc(FilledList(payload.data.countries, FilledCountry))
    ELSE Doc(List(<<>>))

\* C13: a document with levels absent or null is extracted as the same
\* document with an empty list at each of them: where that one raises no
\* error, neither does this one, and the picks are the same.
C13_AbsentLevelsAreEmpty ==
    (res.fn = "extract_picks" /\ arg.v # Filled(arg.v)) =>
        With(extract_picks(Filled(arg.v)), LAMBDA full :
            ~full.raised => (~res.v.raised /\ res.v.out = full.out))

\* A market with null options in an event with two markets, beside another
\* event: a pick from each event.
C13_Witness ==
    /\ res.fn = "extract_picks"
    /\ arg.v = Wrap(<< EventOf("e9",
                          List(<< [isdict |-> TRUE,
                                   name |-> Str(<<"Total de Gols">>),
                                   options |-> NullList],
                                  Market("Total de Gols",
                                         <<Opt(L25, Num(240))>>) >>)),
                      EventPool[1] >>)
    /\ ~res.v.raised
    /\ Len(res.v.out) = 2
    /\ res.v.out[1].odd = 240

\* C14: the store is empty when the process starts, and stays so until a
\* round gets through its diff; in that round, the first successful one of
\* the process, every pick extracted is classified New and none Changed,
\* whatever store the process before it had.
C14_RestartForgets ==
    boot.phase # "running" =>
        /\ start_sent = EmptyStore
        /\ ~Diffed => last_sent = EmptyStore
        /\ Diffed => new_picks = picks /\ changed_picks = <<>>

\* The first successful round after a restart: a pick that the store had,
\* with this odd, before the restart is New again.
C14_Witness ==
    /\ boot.phase = "restarted"
    /\ Diffed
    /\ \E p \in Range(new_picks) :
          /\ key(p) \in DOMAIN boot.before
          /\ FloatEq(boot.before[key(p)], p.odd)

\* The sequences of a sequence, one after another.
RECURSIVE ConcatAll(_)
ConcatAll(ss) == IF ss = <<>> THEN <<>> ELSE ss[1] \o ConcatAll(Tail(ss))

\* The events of a document, in the order of lines 152-154.
EventsOfTourns(ts) ==
    ConcatAll([j \in 1..Len(ts) |-> Iter(ts[j].events).l])
EventsOf(payload) ==
    With(Iter(CountriesOf(payload)).l, LAMBDA cs :
        ConcatAll([c \in 1..Len(cs) |->
                      EventsOfTourns(Iter(cs[c].tournaments).l)]))

\* The line of an event's title as a number; None for a title that does
\* not match.
TitleLineOf(e) ==
    With(parse_under_from_home_text(TextOr(e.homeTeamName)), LAMBDA parsed :
        IF parsed = <<>> THEN None ELSE to_float(parsed[3]))

\* The options of an event, as <<market, option>> positions, that are in a
\* market named "total de gols" (trimmed, whatever the case), are labelled
\* "menos de <line>" and have the line line_f.
Qualifying(e, line_f) ==
    With(Iter(e.markets).l, LAMBDA ms :
        { a \in UNION { {<<m, o>> : o \in 1..Len(Iter(ms[m].options).l)} :
                            m \in 1..Len(ms) } :
            /\ With(TextOr(ms[a[1]].name), LAMBDA mname :
                   Len(mname) = 1 /\ Lower(mname[1]) = "total de gols")
            /\ With(parse_line_from_option_name(
                        TextOr(Iter(ms[a[1]].options).l[a[2]].name)),
                    LAMBDA opt_line :
                   opt_line # <<>> /\ FloatEq(to_float(opt_line), line_f)) })

\* The first of a set of positions: market order, then option order.
FirstOf(S) ==
    CHOOSE a \in S : \A b \in S : a[1] < b[1] \/ (a[1] = b[1] /\ a[2] <= b[2])

\* The odd field at a position, as float() reads it; None if it does not.
OddAt(e, a) == FloatOfOdd(Iter(Iter(e.markets).l[a[1]].options).l[a[2]].odd)

\* The odd of the pick of an event when the first qualifying option
\* decides, None for no pick.
OddOfFirstQualifying(e) ==
    With(TitleLineOf(e), LAMBDA line_f :
    With(IF line_f = None THEN {} ELSE Qualifying(e, line_f), LAMBDA S :
        IF S = {} THEN None ELSE OddAt(e, FirstOf(S))))

\* The same when the first qualifying option with a parsable odd decides.
OddOfFirstParsable(e) ==
    With(TitleLineOf(e), LAMBDA line_f :
    With(IF line_f = None THEN {} ELSE Qualifying(e, line_f), LAMBDA S :
    With({a \in S : OddAt(e, a) # None}, LAMBDA P :
        IF P = {} THEN None ELSE OddAt(e, FirstOf(P)))))

IsOdd(x) == x # None

\* C15, as claimed: the picks of a document are those of its events, in
\* order, whose first qualifying option has a parsable odd, with that odd;
\* an event whose first qualifying option has no parsable odd has no pick.
C15_FirstQualifyingOption ==
    (res.fn = "extract_picks" /\ ~res.v.raised) =>
        With(EventsOf(arg.v), LAMBDA es :
            [j \in 1..Len(res.v.out) |-> res.v.out[j].odd] =
                SelectSeq([j \in 1..Len(es) |-> OddOfFirstQualifying(es[j])],
                          IsOdd))

\* C15, amended: the picks of a document are those of its events, in
\* order, that have a qualifying option with a parsable odd, with the odd
\* of the first such option; an event with none has no pick.
C15_FirstParsableOption ==
    (res.fn = "extract_picks" /\ ~res.v.raised) =>
        With(EventsOf(arg.v), LAMBDA es :
            [j \in 1..Len(res.v.out) |-> res.v.out[j].odd] =
                SelectSeq([j \in 1..Len(es) |-> OddOfFirstParsable(es[j])],
                          IsOdd))

\* An event whose first qualifying option has a null odd and whose second
\* has one, after an event with a pick: the second pick has the odd of
\* that second option.
C15_Witness ==
    /\ res.fn = "extract_picks"
    /\ arg.v = Wrap(<<EventPool[1], EventPool[7]>>)
    /\ OddOfFirstQualifying(EventPool[7]) = None
    /\ Len(res.v.out) = 2
    /\ res.v.out[2].odd = 210

\* An event that justifies a pick: its title matches, and a market of it
\* named "total de gols" has an option "menos de <line>", of the title's
\* line, with a parsable odd.
Justifies(e) ==
    With(TitleLineOf(e), LAMBDA line_f :
        /\ line_f # None
        /\ \E a \in Qualifying(e, line_f) : OddAt(e, a) # None)

\* The pick p is the one of the event e: its id, the names and the line of
\* its title, and the odd of one of its qualifying options.
PickOf(p, e) ==
    With(parse_under_from_home_text(TextOr(e.homeTeamName)), LAMBDA parsed :
        /\ parsed # <<>>
        /\ p.event_id = EventIdText(e)
        /\ p.line_raw = parsed[3]
        /\ p.line = to_float(parsed[3])
        /\ \E a \in Qualifying(e, to_float(parsed[3])) :
              OddAt(e, a) # None /\ OddAt(e, a) = p.odd)

TextOf(e) ==
    CASE e.kind = "new" -> build_new_message(e.picks[1])
      [] e.kind = "group" -> build_group_new_messages(e.picks)
      [] e.kind = "change" -> build_change_message(e.picks[1], e.old)

\* The character after "MUDANCA DE ODD " in a text: the arrow, or the
\* first code point of it.
ArrowIn(text) == text[Len(ChangeHead) + 1]

\* C17: every message for a Changed pick is built from the odd the store
\* had for the pick's key when the round started and from the odd of the
\* pick as extracted in this round; its arrow is the up one when the new
\* odd is the greater and the down one when it is the smaller, and it is
\* never the flat one.
C17_ArrowNeverFlat ==
    \A n \in 1..Len(log) :
        log[n].kind = "change" =>
            With(log[n].picks[1], LAMBDA p :
                /\ p \in Range(picks)
                /\ key(p) \in DOMAIN start_sent
                /\ log[n].old = start_sent[key(p)]
                /\ TextOf(log[n]) = build_change_message(p, start_sent[key(p)])
                /\ FloatGt(p.odd, log[n].old)
                      => ArrowIn(TextOf(log[n])) = ArrowUp[1]
                /\ FloatLt(p.odd, log[n].old)
                      => ArrowIn(TextOf(log[n])) = ArrowDown[1]
                /\ ArrowIn(TextOf(log[n])) # ArrowFlat[1])

\* A title that is the template from start to end, whitespace before and
\* after it aside: "<home> (x) <away> para ter menos de <line> gols na
\* partida", with "(x)" at x and "para ter menos de" at p, and "gols na
\* partida" its last words.
EndsAtPartida(t, p) ==
    With(LineEnd(t, SkipWS(t, p + 1)), LAMBDA le :
        le > 0 /\ SkipWS(t, le + 1) = Len(t))
FollowsTemplate(title_text) ==
    With(Strip(title_text), LAMBDA t :
        \E x \in 1..Len(t), p \in 1..Len(t) :
            HomeFmtAt(t, x, p) /\ EndsAtPartida(t, p))

\* C18: an event whose title is not the template from start to end is no
\* match for the title matcher and has no pick.
C18_OnlyTheTemplate ==
    (res.fn = "extract_picks" /\ ~res.v.raised) =>
        \A e \in Range(EventsOf(arg.v)) :
            With(TextOr(e.homeTeamName), LAMBDA t :
                ~FollowsTemplate(t) =>
                    /\ parse_under_from_home_text(t) = <<>>
                    /\ \A q \in Range(res.v.out) :
                          q.event_id # EventIdText(e))

\* C19: when a send raises, the sends of the round that were still to
\* come are not made: after the failed one the round makes no call but the
\* error report; the store has the writes for the picks so skipped; and
\* in the next round a pick that was skipped, extracted again with the
\* same odd, is Unchanged, and so not sent.
C19_SkippedNeverSent ==
    /\ cause = "send" =>
          /\ \A n \in 1..Len(log) :
                (~log[n].ok /\ log[n].kind # "error") =>
                    \A m \in (n + 1)..Len(log) : log[m].kind = "error"
          /\ \A q \in Range(Skipped) : <<key(q), q.odd>> \in Range(writes)
    /\ (Diffed /\ hist.prev.sendfail) =>
          \A q \in Range(hist.prev.skipped) : \A p \in Range(picks) :
              (key(p) = key(q) /\ FloatEq(p.odd, q.odd)) => IsUnchanged(p)

\* The attempts of the call that failed with an error of line 115.
FailedCaught(n) ==
    \A k \in 1..n :
        fj.tried[k].kind = "raise" /\ fj.tried[k].exc.kind \in Caught

\* fetch_json so far: never more than max_retries attempts; an attempt
\* is made only after attempts that all failed with an HTTP-status or a
\* request error; the sleeps are backoff*i after the i-th such failure;
\* and once it has ended, it has returned the document of its last
\* attempt (the first to succeed), or raised the error of its last
\* attempt, which was either an error of another class, or the
\* max_retries-th error of those classes after the sleep that follows it,
\* or, no attempt being allowed, has raised RuntimeError.
FetchSoFar ==
    LET n == Len(fj.tried)
        m == arg.v.max_retries
        last == fj.tried[n]
    IN  /\ n <= m
        /\ FailedCaught(n - 1)
        /\ fj.pc = "get" => Len(fj.slept) = n
        /\ fj.pc = "sleep" => Len(fj.slept) = n - 1
        /\ \A k \in 1..Len(fj.slept) :
               FailedCaught(k) /\ fj.slept[k] = arg.v.backoff * k
        /\ (res.fn = "none") <=> (fj.pc # "done")
        /\ fj.pc = "done" =>
              \/ /\ n >= 1
                 /\ Len(fj.slept) = n - 1
                 /\ res.v = last
                 /\ last.kind = "return" \/ last.exc.kind \in Uncaught
              \/ /\ n = m /\ n >= 1
                 /\ FailedCaught(n)
                 /\ Len(fj.slept) = n
                 /\ res.v = last
              \/ /\ m = 0 /\ n = 0
                 /\ fj.slept = <<>>
                 /\ res.v = Raises(RuntimeError)

\* C20: fetch_json makes at most max_retries attempts, returns the
\* document of the first attempt to succeed and makes no other, tries
\* again only after an HTTP-status or a request error, having slept
\* backoff*i after the i-th failed attempt, raises the last error once
\* all the attempts have failed, and always ends, with a document or
\* with an error.
C20_FetchEndsWithinRetries ==
    /\ []FetchSoFar
    /\ <>(fj.pc = "done" /\ res.v.kind \in {"return", "raise"})

\* Every attempt of three has failed, each after its sleep, and the call
\* has raised the third error.
C20_Witness ==
    /\ fj.fn = "fetch_json" /\ fj.pc = "done"
    /\ arg.v.max_retries = 3 /\ arg.v.backoff = 150
    /\ Len(fj.tried) = 3
    /\ fj.slept = <<150, 300, 450>>
    /\ res.v = Raises(Exc("RequestError", 3))

====
